---------------------------- MODULE Spec2Model ----------------------------
(***************************************************************************)
(* A model of two components of the investments tool:                      *)
(*   - src/src/broker_statement/ib.rs : the Interactive Brokers statement  *)
(*     parser (dispatch loop, record view, table handlers, period parser); *)
(*   - src/src/cash_flow/comparator.rs : the cash assets comparator.       *)
(*                                                                         *)
(* Conventions.  An Option is a sequence of length at most one: None is    *)
(* <<>> and Some(v) is <<v>>.  A Result is a record with a field ok.  A    *)
(* row of the statement file (csv::StringRecord) is a sequence of strings. *)
(* A Date is the number of days since January 1 of BaseYear.  A decimal    *)
(* amount is an integer number of hundredths.                              *)
(***************************************************************************)
EXTENDS Integers, Sequences, FiniteSets, TLC

\* The state of IbStatementParser::parse
VARIABLES state, record, name, fields, statement, tickers, taxes,
          cur, nread, eof, called, result, header
\* The state of CashAssetsComparator, with what its last call did
VARIABLES historical, iter, next, currencies, ret, logged, query, compared, ordered,
          computed, used, observed
\* The argument and the result of parse_period
VARIABLES period_text, period_result
\* A Record, the field asked of it and the result of Record::get_value
VARIABLES view, asked, got

parser_vars == <<state, record, name, fields, statement, tickers, taxes,
                 cur, nread, eof, called, result, header>>
comparator_vars == <<historical, iter, next, currencies, ret, logged, query, compared,
                     ordered, computed, used, observed>>
period_vars == <<period_text, period_result>>
value_vars == <<view, asked, got>>
vars == <<parser_vars, comparator_vars, period_vars, value_vars>>

---------------------------------------------------------------------------
\* Bounds of the model

\* The number of rows a statement file holds at most
MaxRows == 5

\* The latest date of a historical series; the dates of the checkpoints go
\* one day further
MaxDate == 3

\* The number of tokens a period text holds at most
MaxPeriodTokens == 5

\* The number of fields the header of a Record declares at most
MaxFields == 3

---------------------------------------------------------------------------
\* Options and results

None == <<>>
Some(v) == <<v>>
IsSome(o) == Len(o) > 0
Unwrap(o) == o[1]

Ok(v) == [ok |-> TRUE, val |-> v, err |-> ""]
Err(e) == [ok |-> FALSE, val |-> "", err |-> e]


---------------------------------------------------------------------------
\* Dates (types::Date, a chrono calendar date) and the calendar

MonthNames == <<"January", "February", "March", "April", "May", "June", "July",
                "August", "September", "October", "November", "December">>

\* The number of the month a %B text names, 0 when it names none
MonthIndex(B) ==
    IF \E i \in 1..12 : MonthNames[i] = B
    THEN CHOOSE i \in 1..12 : MonthNames[i] = B
    ELSE 0

IsLeap(y) == (y % 4 = 0 /\ y % 100 # 0) \/ y % 400 = 0

DaysInMonth(m, y) ==
    IF m = 2 THEN (IF IsLeap(y) THEN 29 ELSE 28)
    ELSE IF m \in {4, 6, 9, 11} THEN 30 ELSE 31

DaysInYear(y) == IF IsLeap(y) THEN 366 ELSE 365

RECURSIVE DaysBeforeMonth(_, _)
DaysBeforeMonth(m, y) ==
    IF m <= 1 THEN 0 ELSE DaysBeforeMonth(m - 1, y) + DaysInMonth(m - 1, y)

RECURSIVE DaysBeforeYear(_)
DaysBeforeYear(y) ==
    IF y <= 2018 THEN 0 ELSE DaysBeforeYear(y - 1) + DaysInYear(y - 1)

\* date!(d, m, y): the calendar date as a number of days since 2018-01-01
MkDate(d, m, y) == DaysBeforeYear(y) + DaysBeforeMonth(m, y) + (d - 1)

IsCalendarDate(d, m, y) ==
    /\ y >= 2018
    /\ m \in 1..12
    /\ d >= 1 /\ d <= DaysInMonth(m, y)

\* date + Duration::days(n)
AddDays(date, n) == date + n

---------------------------------------------------------------------------
\* Period texts.  A text is a sequence of tokens; the token of a date
\* written "%B %d, %Y" holds its three parts, the token Sep is " - ", and
\* any other token is text no date format matches.

Tok(B, d, Y) == [B |-> B, d |-> d, Y |-> Y]
Sep == Tok(" - ", 0, 0)

\* str::split(" - "): the segments between the separators, in order.  A text
\* with n separators has n + 1 segments, empty ones included.
RECURSIVE Split(_)
Split(text) ==
    IF text = <<>> THEN << <<>> >>
    ELSE LET rest == Split(Tail(text))
         IN  IF Head(text) = Sep
             THEN << <<>> >> \o rest
             ELSE << <<Head(text)>> \o Head(rest) >> \o Tail(rest)

\* util::parse_date(date, "%B %d, %Y")
parse_period_date(date) ==
    IF /\ Len(date) = 1
       /\ IsCalendarDate(date[1].d, MonthIndex(date[1].B), date[1].Y)
    THEN Ok(MkDate(date[1].d, MonthIndex(date[1].B), date[1].Y))
    ELSE Err("InvalidDate")

\* start > end, the check of a two-date period
PeriodIsReversed(start, end) == start > end

\* PeriodEnd, without the day added
PeriodEndSameDay(date) == date

\* The last day of a period to the end of the half-open interval
PeriodEnd(date) == AddDays(date, 1)

parse_period(period) ==
    LET dates == Split(period)
    IN  IF Len(dates) = 1 THEN
            LET date == parse_period_date(dates[1])
            IN  IF ~date.ok THEN Err(date.err)
                ELSE Ok(<<date.val, PeriodEnd(date.val)>>)
        ELSE IF Len(dates) = 2 THEN
            LET start == parse_period_date(dates[1])
                end == parse_period_date(dates[2])
            IN  IF ~start.ok THEN Err(start.err)
                ELSE IF ~end.ok THEN Err(end.err)
                ELSE IF PeriodIsReversed(start.val, end.val) THEN Err("InvalidPeriod")
                ELSE Ok(<<start.val, PeriodEnd(end.val)>>)
        ELSE Err("InvalidDate")

---------------------------------------------------------------------------
\* The texts of the statement file and what their parsers make of them

\* The tokens of the text of a Field Value cell
PeriodText(s) ==
    CASE s = "October 1, 2018" -> <<Tok("October", 1, 2018)>>
      [] s = "May 21, 2018 - September 28, 2018" ->
            <<Tok("May", 21, 2018), Sep, Tok("September", 28, 2018)>>
      [] s = "September 28, 2018 - May 21, 2018" ->
            <<Tok("September", 28, 2018), Sep, Tok("May", 21, 2018)>>
      [] s = "" -> <<>>
      [] OTHER -> <<Tok(s, 0, 0)>>

\* util::parse_date(date, "%Y-%m-%d")
parse_date(date) ==
    CASE date = "2018-01-02" -> Ok(MkDate(2, 1, 2018))
      [] date = "2018-03-01" -> Ok(MkDate(1, 3, 2018))
      [] date = "2018-06-22" -> Ok(MkDate(22, 6, 2018))
      [] OTHER -> Err("InvalidDate")

\* The decimal a text denotes, in hundredths; "10" and "10.00" denote the
\* same decimal
ParseDecimal(s) ==
    CASE s = "0" -> Ok(0)
      [] s = "5" -> Ok(500)
      [] s = "10" -> Ok(1000)
      [] s = "10.00" -> Ok(1000)
      [] s = "-10.00" -> Ok(-1000)
      [] s = "-5" -> Ok(-500)
      [] s = "500" -> Ok(50000)
      [] OTHER -> Err("InvalidDecimal")

\* Cash::new(currency, amount)
Cash(currency, amount) == [currency |-> currency, amount |-> amount]

\* Cash::new_from_string(currency, amount)
CashNewFromString(currency, amount) ==
    LET d == ParseDecimal(amount)
    IN  IF d.ok THEN Ok(Cash(currency, d.val)) ELSE Err("InvalidCash")

\* Cash::new_from_string_positive(currency, amount)
CashNewFromStringPositive(currency, amount) ==
    LET d == ParseDecimal(amount)
    IN  IF d.ok /\ d.val > 0 THEN Ok(Cash(currency, d.val)) ELSE Err("InvalidCash")

---------------------------------------------------------------------------
\* HashMap, as the set of its entries

Entry(k, v) == [key |-> k, value |-> v]
Keys(m) == {e.key : e \in m}
MapGet(m, k) ==
    IF k \in Keys(m) THEN Some((CHOOSE e \in m : e.key = k).value) ELSE None

\* MapRemove, leaving the entry in the map (a get in place of a remove)
MapRemoveKeeps(m, k) == [map |-> m, old |-> MapGet(m, k)]

\* HashMap::remove: the map without the key, and the value it had
MapRemove(m, k) == [map |-> {e \in m : e.key # k}, old |-> MapGet(m, k)]

\* HashMap::insert: the map with the key set to the value, and the value it had
MapInsert(m, k, v) ==
    [map |-> {e \in m : e.key # k} \cup {Entry(k, v)}, old |-> MapGet(m, k)]

---------------------------------------------------------------------------
\* The record view

\* Iterator::position: the first position of field in the declared names
\* (from 0), None when it is not declared
Position(flds, field) ==
    IF \E i \in 1..Len(flds) : flds[i] = field
    THEN Some((CHOOSE i \in 1..Len(flds) :
                  flds[i] = field /\ \A j \in 1..(i - 1) : flds[j] # field) - 1)
    ELSE None

\* StringRecord::get(i), i from 0
Get(values, i) == IF i + 1 <= Len(values) THEN Some(values[i + 1]) ELSE None

\* ValueColumn, not skipping the name of the table and the kind of the row
ValueColumnUnskipped(index) == index

\* The column of the values where the field at position index is
ValueColumn(index) == index + 2

\* Record::get_value
get_value(rec, field) ==
    LET index == Position(rec.fields, field)
    IN  IF IsSome(index) /\ IsSome(Get(rec.values, ValueColumn(Unwrap(index))))
        THEN Ok(Unwrap(Get(rec.values, ValueColumn(Unwrap(index)))))
        ELSE Err("NoField")

\* parse_header, skipping one column only
parse_headerSkipOne(rec) ==
    [name |-> rec[1], fields |-> SubSeq(rec, 2, Len(rec))]

\* parse_header: the name of the table and its declared field names
parse_header(rec) ==
    [name |-> rec[1], fields |-> SubSeq(rec, 3, Len(rec))]

---------------------------------------------------------------------------
\* The state the table handlers share (the fields of IbStatementParser) and
\* the statement builder

\* BrokerStatementBuilder::new()
NewStatement == [period |-> None, total_value |-> None, deposits |-> <<>>]

\* IbStatementParser::new()
NewParser == [statement |-> NewStatement, tickers |-> {}, taxes |-> {}]

\* The outcome of a handler: whether it succeeded and the state it leaves
Done(p) == [ok |-> TRUE, err |-> "", p |-> p]
Fail(e, p) == [ok |-> FALSE, err |-> e, p |-> p]

\* BrokerStatementBuilder::set_period: the period is set once
set_period(st, period) ==
    IF IsSome(st.period) THEN Err("DuplicatePeriod")
    ELSE Ok([st EXCEPT !.period = Some(period)])

\* BrokerStatementBuilder::get: the statement, which needs its period
BuilderGet(st) ==
    IF IsSome(st.period) THEN Ok(st) ELSE Err("InvalidStatement")

\* CashAssets::new_from_cash(date, amount)
CashAssets(date, amount) == [date |-> date, cash |-> amount]

---------------------------------------------------------------------------
\* The table handlers

StatementInfoParser(p, rec) ==
    LET fname == get_value(rec, "Field Name")
    IN  IF ~fname.ok THEN Fail(fname.err, p)
        ELSE IF fname.val # "Period" THEN Done(p)
        ELSE LET text == get_value(rec, "Field Value")
             IN  IF ~text.ok THEN Fail(text.err, p)
                 ELSE LET period == parse_period(PeriodText(text.val))
                      IN  IF ~period.ok THEN Fail(period.err, p)
                          ELSE LET st == set_period(p.statement, period.val)
                               IN  IF ~st.ok THEN Fail(st.err, p)
                                   ELSE Done([p EXCEPT !.statement = st.val])

\* IsCountedAssetClass, counting cash only
IsCountedAssetClassCash(asset_class) == asset_class = "Cash"

\* The classes of assets the total value counts
IsCountedAssetClass(asset_class) == asset_class = "Cash" \/ asset_class = "Stock"

NetAssetValueParser(p, rec) ==
    LET asset_class == get_value(rec, "Asset Class")
    IN  IF ~asset_class.ok THEN Done(p)
        ELSE IF ~IsCountedAssetClass(asset_class.val) THEN Done(p)
        ELSE LET total == get_value(rec, "Current Total")
             IN  IF ~total.ok THEN Fail(total.err, p)
                 ELSE LET amount == CashNewFromString("USD", total.val)
                      IN  IF ~amount.ok THEN Fail(amount.err, p)
                          ELSE Done([p EXCEPT !.statement.total_value =
                                 Some(Cash("USD",
                                    IF IsSome(p.statement.total_value)
                                    THEN Unwrap(p.statement.total_value).amount
                                            + amount.val.amount
                                    ELSE amount.val.amount))])

\* CancelTax, without the comparison of the cancelled tax with the entry
CancelTaxAnyAmount(p, tax_id, tax) ==
    LET removed == MapRemove(p.taxes, tax_id)
        q == [p EXCEPT !.taxes = removed.map]
    IN  IF IsSome(removed.old) THEN Done(q) ELSE Fail("InvalidWithholdingTax", q)

\* A positive withholding tax cancels the pending tax of its key: the entry
\* is taken out of the map and has to equal the cancelling tax
CancelTax(p, tax_id, tax) ==
    LET removed == MapRemove(p.taxes, tax_id)
        q == [p EXCEPT !.taxes = removed.map]
    IN  IF IsSome(removed.old) /\ Unwrap(removed.old) = tax
        THEN Done(q)
        ELSE Fail("InvalidWithholdingTax", q)

\* A negative withholding tax is put into the map as its magnitude, and the
\* key must not have been there
RegisterTax(p, tax_id, tax) ==
    LET inserted == MapInsert(p.taxes, tax_id, [tax EXCEPT !.amount = -tax.amount])
        q == [p EXCEPT !.taxes = inserted.map]
    IN  IF IsSome(inserted.old)
        THEN Fail("DuplicateWithholdingTax", q)
        ELSE Done(q)

WithholdingTaxParser(p, rec) ==
    LET currency == get_value(rec, "Currency")
    IN  IF ~currency.ok THEN Fail(currency.err, p)
        ELSE IF currency.val = "Total" THEN Done(p)
        ELSE LET dtext == get_value(rec, "Date")
                 date == parse_date(dtext.val)
                 description == get_value(rec, "Description")
                 atext == get_value(rec, "Amount")
                 tax == CashNewFromString(currency.val, atext.val)
             IN  IF ~dtext.ok THEN Fail(dtext.err, p)
                 ELSE IF ~date.ok THEN Fail(date.err, p)
                 ELSE IF ~description.ok THEN Fail(description.err, p)
                 ELSE IF ~atext.ok THEN Fail(atext.err, p)
                 ELSE IF ~tax.ok THEN Fail(tax.err, p)
                 ELSE IF tax.val.amount = 0 THEN Fail("InvalidWithholdingTax", p)
                 ELSE IF tax.val.amount > 0
                      THEN CancelTax(p, <<date.val, description.val>>, tax.val)
                      ELSE RegisterTax(p, <<date.val, description.val>>, tax.val)

\* PushDeposit, putting the event before the others
PushDepositFirst(deposits, event) == <<event>> \o deposits

\* parser.statement.deposits.push(event)
PushDeposit(deposits, event) == Append(deposits, event)

\* str::starts_with("Total"), over the currency texts of the model
StartsWithTotal(s) == s \in {"Total", "Total in USD"}

DepositsParser(p, rec) ==
    LET currency == get_value(rec, "Currency")
    IN  IF ~currency.ok THEN Fail(currency.err, p)
        ELSE IF StartsWithTotal(currency.val) THEN Done(p)
        ELSE LET dtext == get_value(rec, "Settle Date")
                 date == parse_date(dtext.val)
                 atext == get_value(rec, "Amount")
                 amount == CashNewFromStringPositive(currency.val, atext.val)
             IN  IF ~dtext.ok THEN Fail(dtext.err, p)
                 ELSE IF ~date.ok THEN Fail(date.err, p)
                 ELSE IF ~atext.ok THEN Fail(atext.err, p)
                 ELSE IF ~amount.ok THEN Fail(amount.err, p)
                 ELSE Done([p EXCEPT !.statement.deposits =
                              PushDeposit(@, CashAssets(date.val, amount.val))])

FinancialInstrumentInformationParser(p, rec) ==
    LET symbol == get_value(rec, "Symbol")
        description == get_value(rec, "Description")
    IN  IF ~symbol.ok THEN Fail(symbol.err, p)
        ELSE IF ~description.ok THEN Fail(description.err, p)
        ELSE Done([p EXCEPT !.tickers =
                     MapInsert(p.tickers, symbol.val, description.val).map])

UnknownRecordParser(p, rec) == Done(p)

\* The handler of a table, by the name its header gives
ParserFor(table) ==
    CASE table = "Statement" -> "StatementInfoParser"
      [] table = "Net Asset Value" -> "NetAssetValueParser"
      [] table = "Withholding Tax" -> "WithholdingTaxParser"
      [] table = "Deposits & Withdrawals" -> "DepositsParser"
      [] table = "Financial Instrument Information" ->
            "FinancialInstrumentInformationParser"
      [] OTHER -> "UnknownRecordParser"

\* data_types, without the override of UnknownRecordParser
data_typesDefault(parser) == Some({"Data"})

\* RecordParser::data_types: the row kinds a handler takes, None for any
data_types(parser) ==
    IF parser = "UnknownRecordParser" THEN None ELSE Some({"Data"})

\* RecordParser::parse, dispatched on the handler
Parse(parser, p, rec) ==
    CASE parser = "StatementInfoParser" -> StatementInfoParser(p, rec)
      [] parser = "NetAssetValueParser" -> NetAssetValueParser(p, rec)
      [] parser = "WithholdingTaxParser" -> WithholdingTaxParser(p, rec)
      [] parser = "DepositsParser" -> DepositsParser(p, rec)
      [] parser = "FinancialInstrumentInformationParser" ->
            FinancialInstrumentInformationParser(p, rec)
      [] OTHER -> UnknownRecordParser(p, rec)

---------------------------------------------------------------------------
\* The rows a statement file is made of

HeaderRows == {
    <<"Statement", "Header", "Field Name", "Field Value">>,
    <<"Net Asset Value", "Header", "Asset Class", "Current Total">>,
    <<"Net Asset Value", "Header", "Time Weighted Rate of Return">>,
    <<"Withholding Tax", "Header", "Currency", "Date", "Description", "Amount">>,
    <<"Deposits & Withdrawals", "Header", "Currency", "Settle Date", "Amount">>,
    <<"Financial Instrument Information", "Header", "Symbol", "Description">>,
    <<"Financial Instrument Information", "Header", "Description", "Symbol">>,
    <<"Notes", "Header", "Text">> }

DataRows == {
    <<"Statement", "Data", "BrokerName", "Interactive Brokers">>,
    <<"Statement", "Data", "Period", "October 1, 2018">>,
    <<"Statement", "Data", "Period", "May 21, 2018 - September 28, 2018">>,
    <<"Statement", "Data", "Period", "September 28, 2018 - May 21, 2018">>,
    <<"Net Asset Value", "Data", "Cash", "10.00">>,
    <<"Net Asset Value", "Data", "Stock", "500">>,
    <<"Net Asset Value", "Data", "Bonds", "5">>,
    <<"Net Asset Value", "Data", "Cash">>,
    <<"Withholding Tax", "Data", "USD", "2018-03-01", "X", "-10.00">>,
    <<"Withholding Tax", "Data", "USD", "2018-03-01", "X", "10">>,
    <<"Withholding Tax", "Data", "USD", "2018-03-01", "X", "5">>,
    <<"Withholding Tax", "Data", "USD", "2018-03-01", "X", "-5">>,
    <<"Withholding Tax", "Data", "EUR", "2018-03-01", "X", "10.00">>,
    <<"Withholding Tax", "Data", "USD", "2018-03-01", "X", "0">>,
    <<"Withholding Tax", "Data", "USD", "2018-06-22", "Y", "-10.00">>,
    <<"Withholding Tax", "Data", "Total", "", "", "-10.00">>,
    <<"Deposits & Withdrawals", "Data", "USD", "2018-01-02", "500">>,
    <<"Deposits & Withdrawals", "Data", "EUR", "2018-03-01", "10.00">>,
    <<"Deposits & Withdrawals", "Data", "USD", "2018-03-01", "-5">>,
    <<"Deposits & Withdrawals", "Data", "Total in USD", "", "500">>,
    <<"Financial Instrument Information", "Data", "AAPL", "Apple">>,
    <<"Financial Instrument Information", "Data", "AAPL", "Apple Inc">>,
    <<"Notes", "Data", "Generated">> }

\* Rows of another kind than Header and Data, rows outside any table and
\* rows of one field
OtherRows == {
    <<"Statement", "Total", "Period", "October 1, 2018">>,
    <<"Withholding Tax", "SubTotal", "USD", "2018-03-01", "X", "-10.00">>,
    <<"Net Asset Value", "Total", "Cash", "10.00">>,
    <<"Deposits & Withdrawals", "Total", "USD", "2018-01-02", "500">>,
    <<"Financial Instrument Information", "Notes", "AAPL", "Apple">>,
    <<"Notes", "Note", "Generated">>,
    <<"Notes", "Note">>,
    <<"Notes", "">>,
    <<"Statement", "">>,
    <<"Notes">>,
    <<"Statement">> }

Rows == HeaderRows \cup DataRows \cup OtherRows

---------------------------------------------------------------------------
\* IbStatementParser::parse

Running == [status |-> "running", statement |-> NewStatement, err |-> "", row |-> <<>>]

\* return Err!(...): the error and the row it is about
ReturnErr(e, row) ==
    [status |-> "err", statement |-> NewStatement, err |-> e, row |-> row]

\* Ok(self.statement.get().map_err(...)?)
ReturnStatement(st) ==
    IF BuilderGet(st).ok
    THEN [status |-> "ok", statement |-> BuilderGet(st).val, err |-> "", row |-> <<>>]
    ELSE ReturnErr("InvalidStatement", <<>>)

\* The handler was given the row
Called(parser, table, row) == Some([parser |-> parser, name |-> table, row |-> row])

\* record.len() < 2
IsShort(row) == Len(row) < 2

\* Classify, taking every row kind but Header for that of a headerless row
ClassifyLenient(row) ==
    IF IsShort(row) THEN "Invalid"
    ELSE IF row[2] = "Header" THEN "Header"
    ELSE "None"

\* The state the top-level classification of a row leads to
Classify(row) ==
    IF IsShort(row) THEN "Invalid"
    ELSE IF row[2] = "Header" THEN "Header"
    ELSE IF row[2] = "" THEN "None"
    ELSE "Invalid"

\* IsOtherTable, the comparison of the names left out
IsOtherTableNever(row, table) == FALSE

\* The row of a table region belongs to another table
IsOtherTable(row, table) == row[1] # table

\* IsAcceptedType, with every row kind taken
IsAcceptedTypeAlways(types, kind) == TRUE

\* The row is one of the kind Header
IsHeaderRow(row) == Len(row) >= 2 /\ row[2] = "Header"

\* The last row of the kind Header among the rows read: h before the row
LastHeader(h, row) == IF IsHeaderRow(row) THEN row ELSE h

\* The row kind is one the handler takes
IsAcceptedType(types, kind) == IsSome(types) => kind \in Unwrap(types)

ParserInit ==
    /\ state = "None"
    /\ record = <<>>
    /\ name = ""
    /\ fields = <<>>
    /\ statement = NewParser.statement
    /\ tickers = NewParser.tickers
    /\ taxes = NewParser.taxes
    /\ cur = <<>>
    /\ nread = 0
    /\ eof = FALSE
    /\ called = None
    /\ result = Running
    /\ header = <<>>

\* State::None, records.next() is Some(Ok(row))
ScanRow ==
    /\ state = "None"
    /\ nread < MaxRows
    /\ \E row \in Rows :
          /\ state' = "Record"
          /\ record' = row
          /\ cur' = row
          /\ header' = LastHeader(header, row)
    /\ nread' = nread + 1
    /\ called' = None
    /\ UNCHANGED <<name, fields, statement, tickers, taxes, result>>
    /\ UNCHANGED <<eof, comparator_vars, period_vars, value_vars>>

\* State::None, records.next() is Some(Err(_)): the row cannot be decoded
ScanError ==
    /\ state = "None"
    /\ nread < MaxRows
    /\ state' = "Returned"
    /\ result' = ReturnErr("Csv", <<>>)
    /\ cur' = <<>>
    /\ nread' = nread + 1
    /\ called' = None
    /\ UNCHANGED <<record, name, fields, statement, tickers, taxes>>
    /\ UNCHANGED <<eof, header, comparator_vars, period_vars, value_vars>>

\* State::None, records.next() is None: the loop ends
ScanEnd ==
    /\ state = "None"
    /\ eof' = TRUE
    /\ state' = "Returned"
    /\ result' = ReturnStatement(statement)
    /\ called' = None
    /\ UNCHANGED <<record, name, fields, statement, tickers, taxes, cur, nread>>
    /\ UNCHANGED <<header, comparator_vars, period_vars, value_vars>>

\* State::Record
ClassifyRecord ==
    /\ state = "Record"
    /\ called' = None
    /\ IF Classify(record) = "Invalid"
       THEN /\ state' = "Returned"
            /\ result' = ReturnErr("InvalidRecord", record)
            /\ UNCHANGED record
       ELSE IF Classify(record) = "Header"
       THEN /\ state' = "Header"
            /\ UNCHANGED <<record, result>>
       ELSE /\ state' = "None"
            /\ record' = <<>>
            /\ UNCHANGED result
    /\ UNCHANGED <<name, fields, statement, tickers, taxes, cur, nread>>
    /\ UNCHANGED <<eof, header, comparator_vars, period_vars, value_vars>>

\* State::Header, up to the loop over the rows of the table
EnterTable ==
    /\ state = "Header"
    /\ state' = "Table"
    /\ name' = parse_header(record).name
    /\ fields' = parse_header(record).fields
    /\ record' = <<>>
    /\ called' = None
    /\ UNCHANGED <<statement, tickers, taxes, cur, nread, result>>
    /\ UNCHANGED <<eof, header, comparator_vars, period_vars, value_vars>>

\* AfterCall, with the error of the handler ignored
AfterCallIgnoringError(out, row) ==
    /\ state' = "Table"
    /\ UNCHANGED result

\* The ? after the call of the handler: its error ends the parse
AfterCall(out, row) ==
    IF out.ok
    THEN /\ state' = "Table"
         /\ UNCHANGED result
    ELSE /\ state' = "Returned"
         /\ result' = ReturnErr(out.err, row)

\* What the loop over the rows of a table does with the row it reads
TableStep(row) ==
    LET parser == ParserFor(name)
        out == Parse(parser, [statement |-> statement, tickers |-> tickers,
                              taxes |-> taxes],
                     [name |-> name, fields |-> fields, values |-> row])
    IN  IF IsShort(row) THEN
            /\ state' = "Returned"
            /\ result' = ReturnErr("InvalidRecord", row)
            /\ called' = None
            /\ UNCHANGED <<record, statement, tickers, taxes>>
        ELSE IF IsOtherTable(row, name) THEN
            /\ state' = "Record"
            /\ record' = row
            /\ called' = None
            /\ UNCHANGED <<statement, tickers, taxes, result>>
        ELSE IF row[2] = "Header" THEN
            /\ state' = "Header"
            /\ record' = row
            /\ called' = None
            /\ UNCHANGED <<statement, tickers, taxes, result>>
        ELSE IF ~IsAcceptedType(data_types(parser), row[2]) THEN
            /\ state' = "Returned"
            /\ result' = ReturnErr("InvalidDataRecordType", row)
            /\ called' = None
            /\ UNCHANGED <<record, statement, tickers, taxes>>
        ELSE
            /\ called' = Called(parser, name, row)
            /\ statement' = out.p.statement
            /\ tickers' = out.p.tickers
            /\ taxes' = out.p.taxes
            /\ AfterCall(out, row)
            /\ UNCHANGED record

\* The loop of State::Header, records.next() is Some(Ok(row))
TableRow ==
    /\ state = "Table"
    /\ nread < MaxRows
    /\ \E row \in Rows :
          /\ cur' = row
          /\ header' = LastHeader(header, row)
          /\ TableStep(row)
    /\ nread' = nread + 1
    /\ UNCHANGED <<name, fields>>
    /\ UNCHANGED <<eof, comparator_vars, period_vars, value_vars>>

\* The loop of State::Header, records.next() is Some(Err(_))
TableError ==
    /\ state = "Table"
    /\ nread < MaxRows
    /\ state' = "Returned"
    /\ result' = ReturnErr("Csv", <<>>)
    /\ cur' = <<>>
    /\ nread' = nread + 1
    /\ called' = None
    /\ UNCHANGED <<record, name, fields, statement, tickers, taxes>>
    /\ UNCHANGED <<eof, header, comparator_vars, period_vars, value_vars>>

\* TableEnd, going back to State::None instead of leaving the loop
TableEndRescans ==
    /\ state = "Table"
    /\ eof' = TRUE
    /\ state' = "None"
    /\ called' = None
    /\ UNCHANGED <<record, name, fields, statement, tickers, taxes, cur, nread, result>>
    /\ UNCHANGED <<header, comparator_vars, period_vars, value_vars>>

\* The loop of State::Header, records.next() is None: the loop ends
TableEnd ==
    /\ state = "Table"
    /\ eof' = TRUE
    /\ state' = "Returned"
    /\ result' = ReturnStatement(statement)
    /\ called' = None
    /\ UNCHANGED <<record, name, fields, statement, tickers, taxes, cur, nread>>
    /\ UNCHANGED <<header, comparator_vars, period_vars, value_vars>>

ParserNext ==
    \/ ScanRow
    \/ ScanError
    \/ ScanEnd
    \/ ClassifyRecord
    \/ EnterTable
    \/ TableRow
    \/ TableError
    \/ TableEnd

---------------------------------------------------------------------------
\* CashAssetsComparator

\* The currency codes, in the order sort() gives them
CurrencyOrder == <<"EUR", "USD">>
Currencies == {CurrencyOrder[i] : i \in 1..Len(CurrencyOrder)}

\* MultiCurrencyCashAccount: the amount held in each currency it has
Accounts == {
    <<>>,
    [c \in {"USD"} |-> 0],
    [c \in {"USD"} |-> 1],
    [c \in {"EUR", "USD"} |-> 1] }

\* MultiCurrencyCashAccount::iter, the currencies of the assets
AccountCurrencies(account) == DOMAIN account

\* MultiCurrencyCashAccount::get(currency).unwrap_or_else(|| Cash::new(currency, 0))
AmountOrZero(account, currency) ==
    IF currency \in DOMAIN account THEN account[currency] ELSE 0

HistoricalDates == 1..MaxDate
QueryDates == 1..(MaxDate + 1)

\* BTreeMap<Date, MultiCurrencyCashAccount>: the entries in ascending order
\* of their dates, one entry per date
IsSeries(h) == \A i \in 1..(Len(h) - 1) : h[i].date < h[i + 1].date

RECURSIVE SeriesFrom(_)
SeriesFrom(first) ==
    IF first > MaxDate THEN {<<>>}
    ELSE LET later == SeriesFrom(first + 1)
         IN  later \cup
             {<<[date |-> first, account |-> a]>> \o h : a \in Accounts, h \in later}

Series == SeriesFrom(1)

\* IterNext, for an iterator that gives an entry without moving past it
IterNextRepeats(h, n) ==
    IF n < Len(h)
    THEN [item |-> Some(h[n + 1]), iter |-> n]
    ELSE [item |-> None, iter |-> n]

\* btree_map::Iter::next, for the iterator that has given n entries
IterNext(h, n) ==
    IF n < Len(h)
    THEN [item |-> Some(h[n + 1]), iter |-> n + 1]
    ELSE [item |-> None, iter |-> n]

\* CashAssetsComparator::next
ComparatorNext(h, self) ==
    [self EXCEPT !.next = IterNext(h, self.iter).item,
                 !.iter = IterNext(h, self.iter).iter]

\* CashAssetsComparator::new
ComparatorNew(h) == ComparatorNext(h, [iter |-> 0, next |-> None, currencies |-> {}])

\* CashAssetsComparator::currencies
SortedCurrencies(set) == SelectSeq(CurrencyOrder, LAMBDA c : c \in set)

\* IsDue, taking the entry of the date of the checkpoint too
IsDueOnDate(entry, date) == entry.date <= date

\* The entry under the cursor is one to compare at the checkpoint
IsDue(entry, date) == entry.date < date

\* LogLevel, with the two levels exchanged
LogLevelInverted(self) == IF IsSome(self.next) THEN "Warn" ELSE "Debug"

\* The level of the messages about an entry
LogLevel(self) == IF IsSome(self.next) THEN "Debug" ELSE "Warn"

\* The messages of one comparison: the line of the date, then one line for
\* each currency whose amounts differ
RECURSIVE LogLines(_, _, _, _, _, _)
LogLines(cs, level, date, calculated, actual, reported) ==
    IF cs = <<>> THEN <<>>
    ELSE LET c == Head(cs)
             differ == AmountOrZero(calculated, c) # AmountOrZero(actual, c)
             line == [level |-> level, date |-> date, currency |-> c,
                      calculated |-> AmountOrZero(calculated, c),
                      actual |-> AmountOrZero(actual, c)]
             head == [level |-> level, date |-> date, currency |-> "",
                      calculated |-> 0, actual |-> 0]
         IN  (IF differ
              THEN (IF reported THEN <<line>> ELSE <<head, line>>)
              ELSE <<>>)
             \o LogLines(Tail(cs), level, date, calculated, actual,
                         reported \/ differ)

\* IsExhausted, with the test inverted
IsExhaustedInverted(self) == IsSome(self.next)

\* The value compare returns
IsExhausted(self) == ~IsSome(self.next)

\* Extend, forgetting the currencies collected before
ExtendReplaces(set, account) == AccountCurrencies(account)

\* self.currencies.extend(account.iter().map(|assets| assets.currency))
Extend(set, account) == set \cup AccountCurrencies(account)

\* CashAssetsComparator::compare: the comparator it leaves, what it returns
\* and what it logs
compare(h, self, date, calculated) ==
    IF IsSome(self.next) /\ IsDue(Unwrap(self.next), date)
    THEN LET data == Unwrap(self.next)
             moved == ComparatorNext(h, self)
             seen == Extend(Extend(moved.currencies, data.account), calculated)
             after == [moved EXCEPT !.currencies = seen]
         IN  [self |-> after,
              ret |-> IsExhausted(after),
              compared |-> Some(data),
              logged |-> LogLines(SortedCurrencies(seen), LogLevel(after), data.date,
                                  calculated, data.account, FALSE)]
    ELSE [self |-> self, ret |-> IsExhausted(self), compared |-> None, logged |-> <<>>]

\* new(historical), for any historical series; no call of compare yet
ComparatorInit ==
    /\ historical \in Series
    /\ iter = ComparatorNew(historical).iter
    /\ next = ComparatorNew(historical).next
    /\ currencies = ComparatorNew(historical).currencies
    /\ ret = FALSE
    /\ logged = <<>>
    /\ query = 0
    /\ compared = None
    /\ ordered = TRUE
    /\ computed = <<>>
    /\ used = <<>>
    /\ observed = {}

\* A call compare(date, calculated).  query is its date, computed the balance
\* it is given, compared the entry it compared (if any), ordered whether no
\* call so far had a date before that of the call preceding it, used the
\* entries the calls so far took as actual assets, in the order of the calls,
\* observed the currencies of the two balances of the calls that compared.
Compare ==
    \E date \in QueryDates, calculated \in Accounts :
        LET out == compare(historical,
                           [iter |-> iter, next |-> next, currencies |-> currencies],
                           date, calculated)
        IN  /\ iter' = out.self.iter
            /\ next' = out.self.next
            /\ currencies' = out.self.currencies
            /\ ret' = out.ret
            /\ logged' = out.logged
            /\ compared' = out.compared
            /\ query' = date
            /\ ordered' = (ordered /\ date >= query)
            /\ computed' = calculated
            /\ used' = used \o out.compared
            /\ observed' = IF IsSome(out.compared)
                            THEN observed \cup AccountCurrencies(calculated)
                                     \cup AccountCurrencies(Unwrap(out.compared).account)
                            ELSE observed
            /\ UNCHANGED <<historical, parser_vars, period_vars, value_vars>>

---------------------------------------------------------------------------
\* The texts parse_period is given

PeriodAlphabet == {
    Tok("September", 30, 2018),
    Tok("October", 1, 2018),
    Tok("December", 31, 2018),
    Tok("February", 30, 2018),
    Tok("yesterday", 0, 0),
    Sep }

RECURSIVE TextsUpTo(_)
TextsUpTo(n) ==
    IF n = 0 THEN {<<>>}
    ELSE TextsUpTo(n - 1) \cup
         {Append(t, a) : t \in {u \in TextsUpTo(n - 1) : Len(u) = n - 1},
                         a \in PeriodAlphabet}

PeriodInit ==
    /\ period_text \in TextsUpTo(MaxPeriodTokens)
    /\ period_result = None

\* A call parse_period(period_text)
ParsePeriod ==
    /\ period_result = None
    /\ period_result' = Some(parse_period(period_text))
    /\ UNCHANGED <<period_text, parser_vars, comparator_vars, value_vars>>

---------------------------------------------------------------------------
\* The Records get_value is asked

\* The names of fields: three a header may declare, one none declares
FieldNames == {"Asset Class", "Current Total", "Symbol"}
AskedNames == FieldNames \cup {"Code"}

\* The text of a row at each column: the name of the table, the kind of the
\* row, then the values
ColumnText == <<"Net Asset Value", "Data", "v1", "v2", "v3", "v4", "v5", "v6">>

\* The declared lists of up to n field names, a name declared twice included
RECURSIVE FieldLists(_)
FieldLists(n) ==
    IF n = 0 THEN {<<>>}
    ELSE FieldLists(n - 1) \cup
         {Append(l, f) : l \in {k \in FieldLists(n - 1) : Len(k) = n - 1},
                         f \in FieldNames}

\* Record { name, fields, values }: the fields of any header, the values a
\* row of any length, shorter and longer than the header
ValueInit ==
    /\ \E l \in FieldLists(MaxFields), n \in 0..(MaxFields + 3) :
            view = [name |-> ColumnText[1], fields |-> l,
                    values |-> SubSeq(ColumnText, 1, n)]
    /\ asked \in AskedNames
    /\ got = None

\* A call view.get_value(asked)
GetValue ==
    /\ got = None
    /\ got' = Some(get_value(view, asked))
    /\ UNCHANGED <<view, asked, parser_vars, comparator_vars, period_vars>>

---------------------------------------------------------------------------
\* The specifications

\* The comparator and the period parser at rest
ComparatorIdle ==
    /\ historical = <<>>
    /\ iter = 0
    /\ next = None
    /\ currencies = {}
    /\ ret = FALSE
    /\ logged = <<>>
    /\ query = 0
    /\ compared = None
    /\ ordered = TRUE
    /\ computed = <<>>
    /\ used = <<>>
    /\ observed = {}

PeriodIdle ==
    /\ period_text = <<>>
    /\ period_result = None

ValueIdle ==
    /\ view = [name |-> "", fields |-> <<>>, values |-> <<>>]
    /\ asked = ""
    /\ got = None

\* The parse of one statement file, of any rows
Init == ParserInit /\ ComparatorIdle /\ PeriodIdle /\ ValueIdle
Next == ParserNext
Spec == Init /\ [][Next]_vars

\* The parse as it runs: parse is sequential code, which takes its next step
\* as long as it has one
SpecRun == Spec /\ WF_vars(Next)

\* The parser at rest
ParserIdle == ParserInit

\* One comparator over any historical series, called any number of times
InitCmp == ParserIdle /\ ComparatorInit /\ PeriodIdle /\ ValueIdle
NextCmp == Compare
SpecCmp == InitCmp /\ [][NextCmp]_vars

\* One call of parse_period on any text
InitPeriod == ParserIdle /\ ComparatorIdle /\ PeriodInit /\ ValueIdle
NextPeriod == ParsePeriod
SpecPeriod == InitPeriod /\ [][NextPeriod]_vars

\* One call of Record::get_value on any Record, for any field
InitValue == ParserIdle /\ ComparatorIdle /\ PeriodIdle /\ ValueInit
NextValue == GetValue
SpecValue == InitValue /\ [][NextValue]_vars

---------------------------------------------------------------------------
\* The properties of the dispatch loop

\* The loop over the rows of a table reads a row in this step
ReadsInTable == state = "Table" /\ nread' = nread + 1 /\ cur' # <<>>

\* The step leaves the builder, the ticker map and the pending taxes alone
SharedUnchanged == UNCHANGED <<statement, tickers, taxes>>

\* C1, as stated: a handler is only invoked on a row whose first field is the
\* name of the active table, and every row met inside a table region whose
\* first field names another table is handed to State::Record, not dropped
\* and not passed to the handler.
C1_AsStated ==
    [][/\ IsSome(called') =>
            /\ state = "Table"
            /\ Unwrap(called').row = cur'
            /\ Unwrap(called').row[1] = name
       /\ (ReadsInTable /\ cur'[1] # name) =>
            /\ called' = None
            /\ SharedUnchanged
            /\ state' = "Record"
            /\ record' = cur'
            /\ result' = Running]_vars

\* C1, amended: a handler is only invoked on a row whose first field is the
\* name of the active table (and it is the handler of that table); a row of
\* at least two fields met inside a table region whose first field names
\* another table is handed to State::Record, which classifies it as header,
\* headerless or malformed; a row of fewer than two fields is rejected as
\* malformed by the loop of the table itself, whatever its first field.  In
\* both cases the handler is not invoked and the shared state is unchanged.
C1_ForeignRowsReclassified ==
    [][/\ IsSome(called') =>
            /\ state = "Table"
            /\ Unwrap(called').row = cur'
            /\ Unwrap(called').row[1] = name
            /\ Unwrap(called').name = name
            /\ Unwrap(called').parser = ParserFor(name)
       /\ (ReadsInTable /\ cur'[1] # name) =>
            /\ called' = None
            /\ SharedUnchanged
            /\ IF Len(cur') < 2
               THEN /\ state' = "Returned"
                    /\ result' = ReturnErr("InvalidRecord", cur')
               ELSE /\ state' = "Record"
                    /\ record' = cur'
                    /\ result' = Running
       /\ (state = "Record" /\ state' # state) =>
            /\ called' = None
            /\ SharedUnchanged
            /\ \/ /\ state' = "Header"
                  /\ Len(record) >= 2 /\ record[2] = "Header"
                  /\ record' = record
               \/ /\ state' = "None"
                  /\ Len(record) >= 2 /\ record[2] = ""
               \/ /\ state' = "Returned"
                  /\ result' = ReturnErr("InvalidRecord", record)
                  /\ Len(record) < 2 \/ record[2] \notin {"Header", ""}]_vars

\* A row of another table has come back from a table region to State::Record
C1_Witness ==
    /\ state = "Record"
    /\ name # ""
    /\ Len(record) >= 2
    /\ record[1] # name
    /\ record = cur

\* The record view the handler of the active table is given for a row
ViewOf(row) == [name |-> name, fields |-> fields, values |-> row]

\* The five tables that have a handler of their own
RegisteredTables == {"Statement", "Net Asset Value", "Withholding Tax",
                     "Deposits & Withdrawals", "Financial Instrument Information"}

\* The state the handler of the active table is given
SharedState == [statement |-> statement, tickers |-> tickers, taxes |-> taxes]

\* parse has returned a statement / the error of the last row it read / the
\* error of the finalization of the builder
ReturnedStatement == result.status = "ok"
ReturnedRowError ==
    /\ result.status = "err"
    /\ result.err # "InvalidStatement"
    /\ nread >= 1
    /\ result.row = cur
ReturnedFinalError == result.status = "err" /\ result.err = "InvalidStatement"

\* C5, as stated: parse either returns a finalized statement after all rows
\* were consumed without error, or returns the error raised by the first
\* offending row; after that row no row is read or handed to a handler, and
\* no statement is returned.
C5_AsStated ==
    state = "Returned" =>
        \/ ReturnedStatement /\ eof
        \/ ReturnedRowError /\ ~eof

\* C5, amended: parse is fail-fast.  It returns one of: the finalized
\* statement, after all rows were consumed without error; the error raised by
\* the first offending row, in the step that meets the row, with no row read
\* and no handler invoked after it and no statement returned; or, when all
\* rows were consumed without error but the builder cannot be finalized (no
\* period was set), the error of the finalization, and no statement.
C5_FailFast ==
    /\ [](/\ state # "Returned" => (result = Running /\ ~eof)
          /\ state = "Returned" =>
                \/ /\ ReturnedStatement /\ eof
                   /\ IsSome(statement.period)
                   /\ result.statement = statement
                \/ /\ ReturnedRowError /\ ~eof
                   /\ result.statement = NewStatement
                \/ /\ ReturnedFinalError /\ eof
                   /\ ~IsSome(statement.period)
                   /\ result.statement = NewStatement)
    /\ [][state # "Returned"]_vars
    /\ [][(IsSome(called')
             /\ ~Parse(ParserFor(name), SharedState, ViewOf(cur')).ok) =>
            /\ state' = "Returned"
            /\ result' = ReturnErr(Parse(ParserFor(name), SharedState,
                                         ViewOf(cur')).err, cur')]_vars

\* A handler has failed on the third row or a later one, after a handler had
\* changed the shared state: the error is returned, and no statement
C5_Witness ==
    /\ state = "Returned"
    /\ IsSome(called)
    /\ ReturnedRowError
    /\ nread >= 3
    /\ SharedState # NewParser

\* C6: in scanning and inside a table a row of fewer than two fields aborts
\* the parse with a malformed-row error; while scanning, a row whose second
\* field is "Header" starts the inside-table phase of the table its first
\* field names, a row whose second field is empty is skipped with no change
\* to the builder, the ticker map and the pending taxes, and a row with any
\* other second field aborts the parse with a malformed-row error.
C6_Classification ==
    [][/\ (ReadsInTable /\ Len(cur') < 2) =>
            /\ state' = "Returned"
            /\ result' = ReturnErr("InvalidRecord", cur')
            /\ SharedUnchanged
       /\ (state = "Record" /\ state' # state) =>
            /\ SharedUnchanged
            /\ IF Len(record) < 2 THEN
                    /\ state' = "Returned"
                    /\ result' = ReturnErr("InvalidRecord", record)
               ELSE IF record[2] = "Header" THEN
                    /\ state' = "Header"
                    /\ record' = record
                    /\ result' = Running
               ELSE IF record[2] = "" THEN
                    /\ state' = "None"
                    /\ result' = Running
               ELSE /\ state' = "Returned"
                    /\ result' = ReturnErr("InvalidRecord", record)
       /\ (state = "Header" /\ state' # state) =>
            /\ state' = "Table"
            /\ name' = record[1]
            /\ fields' = SubSeq(record, 3, Len(record))
            /\ SharedUnchanged
            /\ result' = Running]_vars

\* A headerless row has been skipped while scanning, after a handler had
\* changed the shared state
C6_Witness ==
    /\ state = "None"
    /\ nread >= 1
    /\ Len(cur) >= 2
    /\ cur[2] = ""
    /\ result = Running
    /\ SharedState # NewParser

\* C7, as stated: inside the region of a table that is none of the five
\* registered ones, every row of the table is accepted whatever its shape and
\* its row kind: no error, and builder, ticker map and pending taxes unchanged.
C7_AsStated ==
    [][(ReadsInTable /\ name \notin RegisteredTables /\ cur'[1] = name) =>
            /\ result' = Running
            /\ SharedUnchanged]_vars

\* C7, amended: inside the region of a table that is none of the five
\* registered ones, every row of the table that has at least two fields is
\* accepted whatever its further shape and its row kind: no error, and
\* builder, ticker map and pending taxes unchanged (a Header row restarts the
\* table, any other row goes to the fallback handler); a row of fewer than
\* two fields aborts the parse with a malformed-row error, as in every table.
C7_UnknownTables ==
    [][(ReadsInTable /\ name \notin RegisteredTables /\ cur'[1] = name) =>
            /\ SharedUnchanged
            /\ IF Len(cur') < 2
               THEN /\ state' = "Returned"
                    /\ result' = ReturnErr("InvalidRecord", cur')
               ELSE /\ result' = Running
                    /\ IF cur'[2] = "Header"
                       THEN state' = "Header" /\ called' = None
                       ELSE /\ state' = "Table"
                            /\ called' = Called("UnknownRecordParser", name, cur')]_vars

\* The fallback handler has taken a row whose kind is neither Header nor Data
C7_Witness ==
    /\ state = "Table"
    /\ name \notin RegisteredTables
    /\ IsSome(called)
    /\ Unwrap(called).parser = "UnknownRecordParser"
    /\ cur[1] = name
    /\ cur[2] \notin {"Header", "Data"}
    /\ result = Running

\* C8: inside the region of one of the five registered tables, a row of the
\* table whose second field is neither "Header" nor "Data" aborts the parse
\* with a data-record-type error, the handler is not invoked and the shared
\* state is unchanged; the handler of a registered table is only given rows
\* whose second field is "Data".
C8_DataTypes ==
    [][/\ (ReadsInTable /\ name \in RegisteredTables /\ Len(cur') >= 2
             /\ cur'[1] = name /\ cur'[2] \notin {"Header", "Data"}) =>
            /\ state' = "Returned"
            /\ result' = ReturnErr("InvalidDataRecordType", cur')
            /\ called' = None
            /\ SharedUnchanged
       /\ (IsSome(called') /\ name \in RegisteredTables) =>
            /\ Unwrap(called').parser # "UnknownRecordParser"
            /\ cur'[2] = "Data"]_vars

\* A row of another kind has been rejected inside the Withholding Tax table
\* while a tax was pending
C8_Witness ==
    /\ state = "Returned"
    /\ result.err = "InvalidDataRecordType"
    /\ name = "Withholding Tax"
    /\ cur[1] = name
    /\ called = None
    /\ taxes # {}

---------------------------------------------------------------------------
\* The properties of the withholding taxes

\* The row is an entry of the Withholding Tax table: not a Total row, and its
\* date, description and amount can be read
IsTaxEntry(rec) ==
    /\ get_value(rec, "Currency").ok
    /\ get_value(rec, "Currency").val # "Total"
    /\ get_value(rec, "Date").ok
    /\ parse_date(get_value(rec, "Date").val).ok
    /\ get_value(rec, "Description").ok
    /\ get_value(rec, "Amount").ok
    /\ ParseDecimal(get_value(rec, "Amount").val).ok

\* The (date, description) key of an entry and its amount of money
TaxKey(rec) ==
    <<parse_date(get_value(rec, "Date").val).val, get_value(rec, "Description").val>>
TaxAmount(rec) == ParseDecimal(get_value(rec, "Amount").val).val
TaxMoney(rec) == Cash(get_value(rec, "Currency").val, TaxAmount(rec))

\* The step is a call of WithholdingTaxParser::parse on an entry
TaxCall ==
    /\ IsSome(called')
    /\ Unwrap(called').parser = "WithholdingTaxParser"
    /\ IsTaxEntry(ViewOf(cur'))

\* The call of the handler in this step succeeded, or failed
CallSucceeded == state' = "Table" /\ result' = Running
CallFailed == state' = "Returned" /\ result'.status = "err" /\ result'.row = cur'

\* C2: for the entries (non-Total rows) WithholdingTaxParser::parse is given:
\* a positive entry whose key is pending with exactly the same magnitude (the
\* same money value: currency and decimal) succeeds and leaves no pending
\* entry for the key; a positive entry whose key is not pending, or is
\* pending with another magnitude, fails; a negative entry whose key is
\* pending fails; a negative entry whose key is not pending succeeds and
\* makes its magnitude the pending entry of the key.
C2_TaxSequence ==
    [][TaxCall =>
         LET rec == ViewOf(cur')
             key == TaxKey(rec)
             pending == MapGet(taxes, key)
         IN  /\ (TaxAmount(rec) > 0 /\ IsSome(pending)
                    /\ Unwrap(pending) = TaxMoney(rec)) =>
                  (CallSucceeded /\ key \notin Keys(taxes'))
             /\ (TaxAmount(rec) > 0
                    /\ (~IsSome(pending) \/ Unwrap(pending) # TaxMoney(rec))) =>
                  CallFailed
             /\ (TaxAmount(rec) < 0 /\ IsSome(pending)) => CallFailed
             /\ (TaxAmount(rec) < 0 /\ ~IsSome(pending)) =>
                  /\ CallSucceeded
                  /\ MapGet(taxes', key) =
                        Some(Cash(TaxMoney(rec).currency, -TaxAmount(rec)))]_vars

\* A positive entry has just cancelled the pending entry of its key, which a
\* negative entry had registered before
C2_Witness ==
    /\ IsSome(called)
    /\ Unwrap(called).parser = "WithholdingTaxParser"
    /\ IsTaxEntry(ViewOf(cur))
    /\ TaxAmount(ViewOf(cur)) > 0
    /\ state = "Table"
    /\ result = Running
    /\ TaxKey(ViewOf(cur)) \notin Keys(taxes)

\* No key has two pending entries
OnePendingPerKey(m) == Cardinality(Keys(m)) = Cardinality(m)

\* The step is a call of the handler on a positive entry that equals the
\* pending entry of key k: a matching cancelling entry for k
MatchingCancel(k) ==
    /\ TaxCall
    /\ TaxKey(ViewOf(cur')) = k
    /\ TaxAmount(ViewOf(cur')) > 0
    /\ MapGet(taxes, k) = Some(TaxMoney(ViewOf(cur')))

\* C9, as stated: over every call of a handler there is at most one pending
\* entry per key, a key leaves the pending map exactly when a matching
\* cancelling entry is observed, and a call that fails does not remove or
\* alter any pending entry.
C9_AsStated ==
    [][IsSome(called') =>
         /\ OnePendingPerKey(taxes')
         /\ \A k \in Keys(taxes) : (k \notin Keys(taxes')) <=> MatchingCancel(k)
         /\ CallFailed => taxes' = taxes]_vars

\* C9, amended: over every call of a handler there is at most one pending
\* entry per key; a call that succeeds removes a key exactly when it is a
\* matching cancelling entry for that key, and leaves the entries of the other
\* keys as they are; a call that fails on a zero amount, on a cancellation of
\* a key that is not pending, or before the amount is read leaves the map
\* unchanged; a cancellation that fails on a magnitude mismatch has removed
\* the pending entry of its key, and a duplicate negative entry that fails has
\* replaced the pending entry of its key by its own magnitude (the parse
\* aborts on both, so the map is not used again).
C9_PendingTaxes ==
    [][IsSome(called') =>
         /\ OnePendingPerKey(taxes) /\ OnePendingPerKey(taxes')
         /\ CallSucceeded \/ CallFailed
         /\ CallSucceeded =>
              /\ \A k \in Keys(taxes) : (k \notin Keys(taxes')) <=> MatchingCancel(k)
              /\ \A e \in taxes : e.key \in Keys(taxes') => e \in taxes'
         /\ CallFailed =>
              IF TaxCall /\ TaxAmount(ViewOf(cur')) # 0
                    /\ TaxKey(ViewOf(cur')) \in Keys(taxes)
              THEN LET rec == ViewOf(cur')
                       others == {e \in taxes : e.key # TaxKey(rec)}
                   IN  IF TaxAmount(rec) > 0
                       THEN /\ MapGet(taxes, TaxKey(rec)) # Some(TaxMoney(rec))
                            /\ taxes' = others
                       ELSE taxes' = others \cup
                               {Entry(TaxKey(rec),
                                      Cash(TaxMoney(rec).currency, -TaxAmount(rec)))}
              ELSE taxes' = taxes]_vars

\* A matching cancelling entry has removed the pending entry of its key and
\* left the pending entry of another key in the map
C9_Witness ==
    /\ IsSome(called)
    /\ Unwrap(called).parser = "WithholdingTaxParser"
    /\ IsTaxEntry(ViewOf(cur))
    /\ TaxAmount(ViewOf(cur)) > 0
    /\ result = Running
    /\ Cardinality(taxes) = 1
    /\ TaxKey(ViewOf(cur)) \notin Keys(taxes)

---------------------------------------------------------------------------
\* The properties of the comparator

\* compare has been called
WasCalled == query # 0

\* The cursor: with an entry under it, that entry is the iter-th entry of the
\* series; with none, every entry of the series has been passed
CursorAt(i) == IsSome(next) /\ iter = i /\ next = Some(historical[i])
CursorPastEnd == ~IsSome(next) /\ iter = Len(historical)

\* C3: for any historical series, the empty one included, compare returns
\* true if and only if the cursor has advanced past the last entry of the
\* series (no entry is left under it), and once a call has returned true every
\* later call returns true.
C3_Exhaustion ==
    /\ [](/\ CursorPastEnd \/ \E i \in 1..Len(historical) : CursorAt(i)
          /\ WasCalled => (ret <=> CursorPastEnd))
    /\ [][(WasCalled /\ ret) => ret']_vars

\* A call has compared the last entry of a series of two entries or more and
\* returned true
C3_Witness ==
    /\ WasCalled
    /\ ret
    /\ Len(historical) >= 2
    /\ compared = Some(historical[Len(historical)])

\* C10, as stated: after every call compare(query_date, computed) of a
\* non-decreasing sequence of calls, the entry left under the cursor (if any)
\* has a date that is not strictly less than query_date.
C10_AsStated ==
    (WasCalled /\ ordered /\ IsSome(next)) => ~(Unwrap(next).date < query)

\* C10, amended: compare(query_date, computed) advances the cursor by exactly
\* one entry when the date of the entry under it is strictly less than
\* query_date, and that entry is the one it compares; otherwise it leaves the
\* cursor where it is and compares nothing.  It does not go on advancing: the
\* entry left under the cursor is the successor of the compared one, whatever
\* its date.
C10_OneStep ==
    [][\A i \in 1..Len(historical) :
          CursorAt(i) =>
            IF historical[i].date < query'
            THEN /\ compared' = Some(historical[i])
                 /\ IF i < Len(historical)
                    THEN CursorAt(i + 1)' ELSE CursorPastEnd'
            ELSE /\ compared' = None
                 /\ CursorAt(i)']_vars

\* After a call of a non-decreasing sequence that compared an entry, the
\* entry left under the cursor still has a date before the date of the call
C10_Witness ==
    /\ WasCalled
    /\ ordered
    /\ IsSome(compared)
    /\ IsSome(next)
    /\ Unwrap(next).date < query

---------------------------------------------------------------------------
\* The properties of parse_period

\* The token is the text of a calendar date, and the date it is the text of
IsDateText(t) == IsCalendarDate(t.d, MonthIndex(t.B), t.Y)
DateOfText(t) == MkDate(t.d, MonthIndex(t.B), t.Y)

\* The number of " - " in a text
Separators(text) == Cardinality({i \in 1..Len(text) : text[i] = Sep})

\* C4: parse_period maps a period of a single date D to (D, D + 1 day) and a
\* period D1 - D2 with D1 <= D2 to (D1, D2 + 1 day); it fails for D1 - D2 with
\* D1 > D2 and for every period of three or more " - "-separated segments;
\* every interval it returns has its start strictly before its end.  The
\* period "September 30, 2018" of the tests gives (2018-09-30, 2018-10-01).
C4_Period ==
    IsSome(period_result) =>
        LET r == Unwrap(period_result)
            t == period_text
        IN  /\ (Len(t) = 1 /\ IsDateText(t[1])) =>
                  /\ r.ok
                  /\ r.val = <<DateOfText(t[1]), DateOfText(t[1]) + 1>>
            /\ (Len(t) = 3 /\ IsDateText(t[1]) /\ t[2] = Sep /\ IsDateText(t[3])) =>
                  IF DateOfText(t[1]) <= DateOfText(t[3])
                  THEN /\ r.ok
                       /\ r.val = <<DateOfText(t[1]), DateOfText(t[3]) + 1>>
                  ELSE ~r.ok
            /\ Separators(t) >= 2 => ~r.ok
            /\ r.ok => r.val[1] < r.val[2]
            /\ t = <<Tok("September", 30, 2018)>> =>
                  r.val = <<MkDate(30, 9, 2018), MkDate(1, 10, 2018)>>

\* A period of two different dates has been parsed
C4_Witness ==
    /\ IsSome(period_result)
    /\ Unwrap(period_result).ok
    /\ Len(period_text) = 3
    /\ Unwrap(period_result).val[2] > Unwrap(period_result).val[1] + 1

---------------------------------------------------------------------------
\* The properties of the messages and of the cursor of the comparator

\* The entry the last call compared is the last one of the series
ComparedLast == compared = Some(historical[Len(historical)])

\* The currencies the messages of the last call name
LoggedCurrencies == {logged[i].currency : i \in 1..Len(logged)} \ {""}

\* The currencies in which the balance given to the last call and the entry
\* it compared differ, a currency a balance lacks counting as zero
Differing ==
    {c \in currencies :
        AmountOrZero(computed, c) # AmountOrZero(Unwrap(compared).account, c)}

\* C11: whenever compare logs a mismatch, the level of every message of the
\* call is Warn if and only if the entry compared is the last entry of the
\* series (no entry is under the cursor after it), and Debug, the
\* informational level, if and only if more entries remain.
C11_Severity ==
    logged # <<>> =>
        /\ IsSome(compared)
        /\ \A i \in 1..Len(logged) :
                /\ logged[i].level \in {"Warn", "Debug"}
                /\ logged[i].level = "Warn" <=> ComparedLast
                /\ logged[i].level = "Warn" <=> next = None
                /\ logged[i].level = "Debug" <=> IsSome(next)
                /\ logged[i].level = "Debug" <=>
                        \E k \in 1..(Len(historical) - 1) : compared = Some(historical[k])

\* A mismatch with the last entry of a series of several entries
C11_Witness ==
    /\ logged # <<>>
    /\ logged[1].level = "Warn"
    /\ Len(used) >= 2
    /\ ComparedLast

\* What C12 says of the state a call leaves
C12_Checked ==
    /\ currencies = observed
    /\ IsSome(compared) =>
            /\ AccountCurrencies(computed) \subseteq currencies
            /\ AccountCurrencies(Unwrap(compared).account) \subseteq currencies
            /\ LoggedCurrencies = Differing
            /\ \A i \in 1..Len(logged) :
                    logged[i].currency # "" =>
                        /\ logged[i].calculated = AmountOrZero(computed, logged[i].currency)
                        /\ logged[i].actual =
                               AmountOrZero(Unwrap(compared).account, logged[i].currency)

C19_NoRewind ==
    [][/\ historical' = historical
       /\ iter' >= iter
       /\ Len(used') <= Len(historical)
       /\ \A i \in 1..Len(used') : used'[i] = historical[i]
       /\ \A i \in 1..(Len(used') - 1) : used'[i].date < used'[i + 1].date
       /\ \A i \in 1..Len(used) : used'[i] = used[i]
       /\ Len(used') \in {Len(used), Len(used) + 1}]_vars

\* Several entries compared, and a call in between that compared none
C19_Witness ==
    /\ Len(used) >= 2
    /\ compared = None
    /\ IsSome(next)

\* C20: a call whose date is not after the date of the entry under the
\* cursor compares nothing, logs nothing, returns false and leaves the cursor
\* and the set of currencies as they were, the currencies of the balance it
\* is given included; so does a call whose date is the date of the entry.
C20_NotDue ==
    [][(IsSome(next) /\ Unwrap(next).date >= query') =>
            /\ compared' = None
            /\ logged' = <<>>
            /\ ret' = FALSE
            /\ UNCHANGED <<historical, iter, next, currencies, used, observed>>]_vars

\* A call on the very date of the entry under the cursor, given a balance
\* with a currency the comparator has not seen
C20_Witness ==
    /\ WasCalled
    /\ IsSome(next)
    /\ Unwrap(next).date = query
    /\ compared = None
    /\ logged = <<>>
    /\ ~ret
    /\ AccountCurrencies(computed) \ currencies # {}

---------------------------------------------------------------------------
\* The properties of Record::get_value

\* The positions (from 1) at which the declared list has the field asked
Declared == {i \in 1..Len(view.fields) : view.fields[i] = asked}

\* The first of them
FirstDeclared == CHOOSE i \in Declared : \A j \in Declared : i <= j

\* C13: get_value(field) returns the value of the row at position i + 2,
\* where i is the position (from 0) of field in the declared list; it fails
\* if and only if field is not declared or the row has no value at position
\* i + 2; it never returns the column of the name of the table or the column
\* of the kind of the row.
C13_GetValue ==
    IsSome(got) =>
        LET r == Unwrap(got)
        IN  /\ r.ok <=> (Declared # {} /\ Len(view.values) >= FirstDeclared + 2)
            /\ ~r.ok <=> (Declared = {} \/ Len(view.values) < FirstDeclared + 2)
            /\ r.ok =>
                    /\ r.val = view.values[FirstDeclared + 2]
                    /\ r.val = ColumnText[FirstDeclared + 2]
                    /\ r.val \notin {view.values[1], view.values[2]}
                    /\ r.val \notin {ColumnText[1], ColumnText[2]}

\* The second declared field, asked of a row that has its value
C13_Witness ==
    /\ IsSome(got)
    /\ Unwrap(got).ok
    /\ Declared # {}
    /\ FirstDeclared = 2
    /\ Unwrap(got).val = "v2"

---------------------------------------------------------------------------
\* The properties of the builder, of what parse returns and of the loop

\* The handler called in this step, "" when none is
CalledParser == IF IsSome(called') THEN Unwrap(called').parser ELSE ""

\* The event of a row of the table of deposits, by the columns of the header
\* Currency, Settle Date, Amount
DepositOf(row) ==
    [date |-> parse_date(row[4]).val,
     cash |-> [currency |-> row[3], amount |-> ParseDecimal(row[5]).val]]

\* The row is one of the table of deposits that is not a row of totals
IsDepositEntry(row) ==
    /\ Len(row) >= 3
    /\ row[3] \notin {"Total", "Total in USD"}

\* C14: the list of deposits of a successful parse is the sequence, in file
\* order, of the data rows of the regions of Deposits & Withdrawals whose
\* Currency does not start with "Total": each such row the handler accepts
\* appends the event (Settle Date, Amount in Currency) at the end, a row of
\* totals appends nothing, no other step appends or reorders, and the list
\* returned is the list of the builder.
C14_Deposits ==
    [][/\ IF /\ CalledParser = "DepositsParser"
             /\ fields = <<"Currency", "Settle Date", "Amount">>
             /\ IsDepositEntry(cur')
             /\ CallSucceeded
          THEN statement'.deposits = Append(statement.deposits, DepositOf(cur'))
          ELSE statement'.deposits = statement.deposits
       /\ (CalledParser = "DepositsParser" /\ CallSucceeded) =>
               fields = <<"Currency", "Settle Date", "Amount">>
       /\ (state' = "Returned" /\ result'.status = "ok") =>
               result'.statement.deposits = statement'.deposits]_vars

\* A statement returned with two deposits, the later one first in the file
C14_Witness ==
    /\ ReturnedStatement
    /\ Len(result.statement.deposits) = 2
    /\ result.statement.deposits[1].date > result.statement.deposits[2].date
    /\ result.statement.deposits[1].cash = Cash("EUR", 1000)
    /\ result.statement.deposits[2].cash = Cash("USD", 50000)

\* The amount of the total value, 0 when it is unset
TotalAmount(st) ==
    IF IsSome(st.total_value) THEN Unwrap(st.total_value).amount ELSE 0

\* C15: the total value is unset until a row of Net Asset Value whose Asset
\* Class is Cash or Stock is accepted, and is then the sum of the Current
\* Total of all such rows, over all regions of the table; a row of another
\* Asset Class, or whose Asset Class cannot be looked up, succeeds and leaves
\* the total as it was; no other step changes it.
C15_TotalValue ==
    [][IF CalledParser = "NetAssetValueParser"
       THEN LET class == get_value(ViewOf(cur'), "Asset Class")
                total == get_value(ViewOf(cur'), "Current Total")
            IN  IF class.ok /\ class.val \in {"Cash", "Stock"}
                THEN IF CallSucceeded
                     THEN /\ total.ok
                          /\ ParseDecimal(total.val).ok
                          /\ statement'.total_value =
                                Some(Cash("USD", TotalAmount(statement)
                                                   + ParseDecimal(total.val).val))
                     ELSE /\ CallFailed
                          /\ statement'.total_value = statement.total_value
                ELSE /\ CallSucceeded
                     /\ statement' = statement
       ELSE statement'.total_value = statement.total_value]_vars

\* The total of a row of cash and a row of stock, with a row whose Asset
\* Class cannot be looked up accepted after them
C15_Witness ==
    /\ statement.total_value = Some(Cash("USD", 51000))
    /\ IsSome(called)
    /\ Unwrap(called).parser = "NetAssetValueParser"
    /\ ~get_value(ViewOf(cur), "Asset Class").ok
    /\ state = "Table"

\* The ticker map and the pending taxes what parse returned carries
ReturnedTickers ==
    IF "tickers" \in DOMAIN result.statement THEN result.statement.tickers ELSE {}
ReturnedTaxes ==
    IF "taxes" \in DOMAIN result.statement THEN result.statement.taxes ELSE {}

\* C16, as stated: what a successful parse returns carries, besides period,
\* total value and deposits, the ticker map (every Symbol -> Description
\* recorded during the parse) and the pending withholding taxes that were
\* never cancelled.
C16_AsStated ==
    ReturnedStatement =>
        /\ tickers \subseteq ReturnedTickers
        /\ taxes \subseteq ReturnedTaxes

\* C17: a row of the kind Header read inside a table region starts the table
\* it names without State::None in between: State::Header at once for the
\* active table, through State::Record for another; State::Header derives
\* the name, the handler and the field names from that row, so that every
\* row a handler is given is read by the field names of the last header row
\* before it.
C17_HeaderRestart ==
    [][/\ (ReadsInTable /\ IsHeaderRow(cur')) =>
            /\ record' = cur'
            /\ state' = IF cur'[1] = name THEN "Header" ELSE "Record"
            /\ called' = None
            /\ SharedUnchanged
       /\ (state = "Record" /\ IsHeaderRow(record)) =>
            /\ state' = "Header"
            /\ record' = record
       /\ state = "Header" =>
            /\ record = header
            /\ state' = "Table"
            /\ name' = header[1]
            /\ fields' = SubSeq(header, 3, Len(header))
       /\ IsSome(called') =>
            /\ header' = header
            /\ ~IsHeaderRow(cur')
            /\ Unwrap(called').name = header[1]
            /\ Unwrap(called').parser = ParserFor(header[1])
            /\ name = header[1]
            /\ fields = SubSeq(header, 3, Len(header))]_vars

\* Two rows of one table read by two headers that name the columns in
\* opposite orders
C17_Witness ==
    /\ Entry("AAPL", "Apple") \in tickers
    /\ Entry("Apple", "AAPL") \in tickers
    /\ header = <<"Financial Instrument Information", "Header", "Description", "Symbol">>

\* The steps the loop takes at most before it reads a row or returns
Rank(s) ==
    CASE s = "Record" -> 2
      [] s = "Header" -> 1
      [] OTHER -> 0

\* C18: the loop terminates on every finite sequence of rows: every step
\* either reads the next row (one row, counted once), or returns, or brings
\* the loop nearer to its next read; the end of the rows ends the loop with
\* the builder finalized; and the parse returns at last.
C18_Terminates ==
    /\ [][/\ state # "Returned"
          /\ nread' \in {nread, nread + 1}
          /\ (nread' = nread + 1) => (state \in {"None", "Table"})
          /\ \/ nread' = nread + 1
             \/ state' = "Returned"
             \/ Rank(state') < Rank(state)
          /\ eof' =>
               /\ ~eof
               /\ nread' = nread
               /\ state' = "Returned"
               /\ result' = ReturnStatement(statement)
               /\ SharedUnchanged]_vars
    /\ <>(state = "Returned")
    /\ [](nread <= MaxRows)

\* The rows ran out inside a table region after MaxRows rows, and the
\* builder was finalized
C18_Witness ==
    /\ state = "Returned"
    /\ eof
    /\ nread = MaxRows
    /\ name # ""
    /\ result = ReturnStatement(statement)
    /\ ReturnedStatement

=============================================================================
